---- MODULE Spec2Model ----
(***************************************************************************)
(* Model of the multi-target backup engine of usexfg/fuego-data:           *)
(*   - OrganizationBackup.run_backup and generate_summary                  *)
(*     (src/github-backup/backup_organization.py), specification Spec;     *)
(*   - the backup_repository methods of the destination adapters           *)
(*     (src/GOBS/backup_targets.py), specification TargetSpec;             *)
(*   - _get_token, the constructors and test_connection, the repository    *)
(*     filter of GitHubBackup.get_repositories (src/GOBS/github_backup.py) *)
(*     and BackupTargetFactory.create_targets, each applied to drawn       *)
(*     inputs, specification UnitSpec;                                     *)
(*   - LocalBackupTarget.backup_repository and _cleanup_old_versions on a  *)
(*     shared backup directory, specification LocalSpec;                   *)
(*   - run_backup with destinations that may never answer, specification   *)
(*     LiveSpec (Spec with weak fairness);                                 *)
(*   - start_scheduler and run_scheduled_backup over the job list of the   *)
(*     schedule library, specification SchedSpec.                          *)
(* In Spec and TargetSpec repository names are 1..MaxRepos.  Wall-clock    *)
(* values (timestamp, duration_seconds) are left out of the summary.       *)
(***************************************************************************)
EXTENDS Integers, Sequences, FiniteSets, TLC

\* ------------------------------------------------------------------ bounds
MaxRepos == 2
MaxWorkers == 2
MaxCalls == 2

\* Longest configured credential string, in characters.
MaxTokenLen == 4

\* Longest include / exclude pattern list.
MaxPatterns == 1

\* Most snapshots of one repository left by earlier runs.
MaxOld == 2

\* Largest keep_versions.
MaxKeep == 2

\* Most backup_targets entries of a scheduler configuration.
MaxSchedTargets == 2

\* Largest sync_interval_hours, in hours.
MaxInterval == 2

\* The scheduler is followed up to this hour.
MaxTime == 3

\* Most run_backup invocations the scheduler is followed for.
MaxRuns == 2

\* --------------------------------------------------------------- variables
VARIABLES
    \* run_backup (orchestrator)
    config,         \* the run's inputs: configuration file, dry_run flag, what GitHub returns
    pc,             \* position of the thread that executes run_backup
    repositories,   \* local `repositories`
    backup_tasks,   \* local `backup_tasks`: sequence of [repo, target]
    results,        \* local `results`
    future,         \* state of the future submitted for each task index
    raised,         \* task indices whose target.backup_repository raised
    calls,          \* number of target.backup_repository invocations per <<repo, target>>
    summary,        \* <<>> until generate_summary has run, then <<summary>>
    sent,           \* summaries handed to NotificationManager.send_backup_summary
    ret             \* <<>> until run_backup returns, then <<returned dict>>

orchVars == <<config, pc, repositories, backup_tasks, results, future, raised,
              calls, summary, sent, ret>>

VARIABLES
    \* one adapter instance and its destination (TargetSpec)
    tcfg,           \* the adapter under test and its configuration
    entities,       \* destination-side projects/repositories carrying each repo name
    mirrors,        \* destination-side mirror registrations per repo name
    ncalls,         \* backup_repository calls made so far per repo name
    synced,         \* repo names for which a backup_repository call has returned
    last            \* what the latest backup_repository call did

tgtVars == <<tcfg, entities, mirrors, ncalls, synced, last>>

VARIABLES
    \* one call of a function of the engine on drawn inputs (UnitSpec)
    unit            \* [op, the inputs, done, and once done the output]

unitVars == <<unit>>

VARIABLES
    \* LocalBackupTarget and its backup directory (LocalSpec)
    lcfg,           \* [keep_versions, compress]
    fs,             \* the entries of backup_path: [repo, ts, kind, ctime, complete]
    ltask,          \* per repository: where its backup_repository call is
    clock,          \* the time
    removed         \* what _cleanup_old_versions removed: [by, item]

localVars == <<lcfg, fs, ltask, clock, removed>>

VARIABLES
    \* the destinations' side of a run (LiveSpec)
    unresponsive    \* adapter names whose destination accepts a call and never answers

envVars == <<unresponsive>>

VARIABLES
    \* start_scheduler, run_scheduled_backup and the NotificationManager (SchedSpec)
    scfg,           \* [targets: the backup_targets entries, each enabled and sync_interval_hours]
    jobs,           \* the schedule library's job list: [interval, next_run]
    now,            \* the time, in hours
    spc,            \* position of the thread that executes start_scheduler
    due,            \* the jobs run_pending still has to run in this round
    active,         \* run_backup invocations in progress
    runlog,         \* the run_backup invocations so far: [job, start, end, outcome]
    notes           \* the NotificationManager calls so far

schedVars == <<scfg, jobs, now, spc, due, active, runlog, notes>>

\* The variables the run_backup model leaves alone.
nonOrchVars == <<tgtVars, unitVars, localVars, envVars, schedVars>>

vars == <<orchVars, tgtVars, unitVars, localVars, envVars, schedVars>>

\* ------------------------------------------------------- program constants
\* The configuration keys of the adapters the orchestrator model runs with:
\* each is absent, present and disabled, or present and enabled.
ConfigKeys == {"gitlab", "local_backup"}

\* Order in which BackupTargetFactory.create_targets inserts the adapters.
FactoryOrder == <<"gitlab", "gitea", "bitbucket", "radicle", "gittorrent",
                  "ipfs", "dat", "local_backup">>

\* Name the factory registers the adapter of a configuration key under.
TargetName(key) == IF key = "local_backup" THEN "local" ELSE key

TargetNames == {TargetName(FactoryOrder[i]) : i \in 1..Len(FactoryOrder)}

RepoNames == 1..MaxRepos

\* ----------------------------------------------------------------- helpers
\* len([r for r in results if r['status'] == status])
CountStatus(res, status) ==
    Cardinality({i \in 1..Len(res) : res[i].status = status})

\* The counter target_summary[t][...] that the outcomes of `status` increment.
CountTargetStatus(res, t, status) ==
    Cardinality({i \in 1..Len(res) : res[i].target = t /\ res[i].status = status})

\* ---------------------------------------------------------- create_targets
\* Mutant: the factory skips a key that is not enabled.
create_targets_SkipsDisabled(cfg) ==
    LET present == SelectSeq(FactoryOrder, LAMBDA k : k \in DOMAIN cfg /\ cfg[k].enabled)
    IN  [i \in 1..Len(present) |->
            [name |-> TargetName(present[i]), enabled |-> cfg[present[i]].enabled]]

\* BackupTargetFactory.create_targets: one adapter per recognised key that is
\* present, in the factory's order, enabled or not.
create_targets(cfg) ==
    LET present == SelectSeq(FactoryOrder, LAMBDA k : k \in DOMAIN cfg)
    IN  [i \in 1..Len(present) |->
            [name |-> TargetName(present[i]), enabled |-> cfg[present[i]].enabled]]

\* BackupTarget.is_enabled
is_enabled(target) == target.enabled

\* ------------------------------------------------------------- run_backup
\* Lines 92-97: the nested loops over repositories and backup_targets.items().
EnabledTargets(targets) == SelectSeq(targets, is_enabled)

\* Mutant: the inner loop stops after the first enabled adapter.
PrepareBackupTasks_FirstTargetOnly(repos, targets) ==
    LET en == EnabledTargets(targets)
        n  == IF Len(en) > 0 THEN 1 ELSE 0
    IN  [k \in 1..(Len(repos) * n) |->
            [repo |-> repos[k], target |-> en[1].name]]

\* Mutant: the is_enabled() test of line 96 is missing.
PrepareBackupTasks_IgnoreEnabled(repos, targets) ==
    LET n == Len(targets)
    IN  [k \in 1..(Len(repos) * n) |->
            [repo   |-> repos[((k - 1) \div n) + 1],
             target |-> targets[((k - 1) % n) + 1].name]]

PrepareBackupTasks(repos, targets) ==
    LET en == EnabledTargets(targets)
        n  == Len(en)
    IN  [k \in 1..(Len(repos) * n) |->
            [repo   |-> repos[((k - 1) \div n) + 1],
             target |-> en[((k - 1) % n) + 1].name]]

\* Line 105: the size of the worker pool,
\* config.get('performance', {}).get('max_concurrent_backups', 5).  The
\* configured value is a positive integer (ThreadPoolExecutor accepts no other).
DefaultMaxWorkers == 5

\* Mutant: one worker thread per task.
max_workers_PerTask == Len(backup_tasks)

max_workers ==
    IF config.max_concurrent_backups = <<>>
    THEN DefaultMaxWorkers
    ELSE config.max_concurrent_backups[1]

\* Mutant: the except branch reports the task like the try branch does.
backup_repository_Mislabel(repo, target_name, did_raise, result) ==
    [repository |-> repo, target |-> target_name, status |-> "success",
     result |-> result]

\* OrganizationBackup.backup_repository (lines 56-74): the task body's outcome.
backup_repository(repo, target_name, did_raise, result) ==
    IF did_raise
    THEN [repository |-> repo, target |-> target_name, status |-> "error",
          error |-> result]
    ELSE [repository |-> repo, target |-> target_name, status |-> "success",
          result |-> result]

\* Lines 118-123: the synthetic outcome of a dry run.
DryRunOutcome(task) ==
    [repository |-> task.repo, target |-> task.target, status |-> "dry_run",
     result |-> "Simulated backup"]

\* Mutant: the per-adapter breakdown leaves failed outcomes uncounted.
TargetSummary_DropsFailed(res) ==
    [t \in {res[i].target : i \in 1..Len(res)} |->
        [success |-> CountTargetStatus(res, t, "success"),
         failed  |-> 0,
         dry_run |-> CountTargetStatus(res, t, "dry_run")]]

\* OrganizationBackup.generate_summary (lines 161-191).
TargetSummary(res) ==
    [t \in {res[i].target : i \in 1..Len(res)} |->
        [success |-> CountTargetStatus(res, t, "success"),
         failed  |-> CountTargetStatus(res, t, "error"),
         dry_run |-> CountTargetStatus(res, t, "dry_run")]]

\* Mutant: the overall counters stop at the first failed outcome of the list.
generate_summary_StopsAtError(res) ==
    LET errs == {i \in 1..Len(res) : res[i].status = "error"}
        stop == IF errs = {} THEN Len(res)
                ELSE CHOOSE i \in errs : \A j \in errs : i <= j
        head == SubSeq(res, 1, stop)
    IN  [total_backups  |-> Len(res),
         successful     |-> CountStatus(head, "success"),
         failed         |-> CountStatus(res, "error"),
         dry_run        |-> CountStatus(res, "dry_run"),
         target_summary |-> TargetSummary(res),
         results        |-> res]

generate_summary(res) ==
    [total_backups  |-> Len(res),
     successful     |-> CountStatus(res, "success"),
     failed         |-> CountStatus(res, "error"),
     dry_run        |-> CountStatus(res, "dry_run"),
     target_summary |-> TargetSummary(res),
     results        |-> res]

\* ------------------------------------------------------------------ Init
TargetConfigs ==
    UNION {[ks -> [enabled : BOOLEAN]] : ks \in SUBSET ConfigKeys}

Configs ==
    [found          : 0..MaxRepos,          \* repositories GitHub yields after filtering
     discovery      : {"ok", "error"},      \* whether organization.get_repos() raises
     backup_targets : TargetConfigs,
     max_concurrent_backups : {<<>>} \cup {<<n>> : n \in 1..MaxWorkers},  \* <<>>: key absent
     dry_run        : BOOLEAN]

NoCalls == [p \in RepoNames \X TargetNames |-> 0]

OrchInit ==
    /\ config \in Configs
    /\ pc = "start"
    /\ repositories = <<>>
    /\ backup_tasks = <<>>
    /\ results = <<>>
    /\ future = <<>>
    /\ raised = {}
    /\ calls = NoCalls
    /\ summary = <<>>
    /\ sent = <<>>
    /\ ret = <<>>

\* The adapter-level variables while the orchestrator model runs.
TargetIdle ==
    /\ tcfg = [adapter |-> "none"]
    /\ entities = [r \in RepoNames |-> 0]
    /\ mirrors = [r \in RepoNames |-> 0]
    /\ ncalls = [r \in RepoNames |-> 0]
    /\ synced = {}
    /\ last = [n |-> 0]

\* The unit-level variable while another model runs.
UnitIdle == unit = [op |-> "none"]

\* The backup directory while another model runs.
LocalIdle ==
    /\ lcfg = [keep_versions |-> 0]
    /\ fs = {}
    /\ ltask = <<>>
    /\ clock = 0
    /\ removed = {}

\* Every destination answers the calls made to it.
Responsive == unresponsive = {}

\* The scheduler while another model runs.
SchedIdle ==
    /\ scfg = [targets |-> <<>>]
    /\ jobs = <<>>
    /\ now = 0
    /\ spc = "idle"
    /\ due = <<>>
    /\ active = 0
    /\ runlog = <<>>
    /\ notes = <<>>

Init == OrchInit /\ Responsive /\ TargetIdle /\ UnitIdle /\ LocalIdle /\ SchedIdle

\* ---------------------------------------------------------------- actions
Tasks == 1..Len(backup_tasks)
Running == {i \in DOMAIN future : future[i].state = "running"}
Pending == {i \in DOMAIN future : future[i].state = "pending"}
Collected == {i \in DOMAIN future : future[i].state = "collected"}

\* Lines 84-90: get_repositories; a GithubException propagates out of run_backup.
\* Mutant: a discovery error is swallowed and read as an empty organization.
GetRepositories_SwallowsError ==
    /\ pc = "start"
    /\ repositories' = IF config.discovery = "error" THEN <<>>
                       ELSE [i \in 1..config.found |-> i]
    /\ pc' = "check_repositories"
    /\ UNCHANGED <<config, backup_tasks, results, future, raised, calls,
                   summary, sent, ret, nonOrchVars>>

GetRepositories ==
    /\ pc = "start"
    /\ IF config.discovery = "error"
       THEN /\ pc' = "raised"
            /\ UNCHANGED repositories
       ELSE /\ repositories' = [i \in 1..config.found |-> i]
            /\ pc' = "check_repositories"
    /\ UNCHANGED <<config, backup_tasks, results, future, raised, calls,
                   summary, sent, ret, nonOrchVars>>

\* Lines 88-90.
NoRepositories ==
    /\ pc = "check_repositories"
    /\ repositories = <<>>
    /\ ret' = <<[status |-> "no_repositories"]>>
    /\ pc' = "returned"
    /\ UNCHANGED <<config, repositories, backup_tasks, results, future, raised,
                   calls, summary, sent, nonOrchVars>>

\* Lines 92-97.
PrepareTasks ==
    /\ pc = "check_repositories"
    /\ repositories # <<>>
    /\ backup_tasks' = PrepareBackupTasks(repositories,
                                          create_targets(config.backup_targets))
    /\ pc' = "check_tasks"
    /\ UNCHANGED <<config, repositories, results, future, raised, calls,
                   summary, sent, ret, nonOrchVars>>

\* Mutant: the early return of line 101 is missing.
NoTargets_FallsThrough ==
    /\ pc = "check_tasks"
    /\ backup_tasks = <<>>
    /\ pc' = "summary"
    /\ UNCHANGED <<config, repositories, backup_tasks, results, future, raised,
                   calls, summary, sent, ret, nonOrchVars>>

\* Lines 99-101.
NoTargets ==
    /\ pc = "check_tasks"
    /\ backup_tasks = <<>>
    /\ ret' = <<[status |-> "no_targets"]>>
    /\ pc' = "returned"
    /\ UNCHANGED <<config, repositories, backup_tasks, results, future, raised,
                   calls, summary, sent, nonOrchVars>>

\* Mutant: the dry_run flag is not consulted before executing.
BeginExecute_AlwaysLive ==
    /\ pc = "check_tasks"
    /\ backup_tasks # <<>>
    /\ pc' = "submit"
    /\ UNCHANGED <<config, repositories, backup_tasks, results, future, raised,
                   calls, summary, sent, ret, nonOrchVars>>

\* Lines 103-114: results = [], the branch on dry_run.
BeginExecute ==
    /\ pc = "check_tasks"
    /\ backup_tasks # <<>>
    /\ pc' = IF config.dry_run THEN "dry_run" ELSE "submit"
    /\ UNCHANGED <<config, repositories, backup_tasks, results, future, raised,
                   calls, summary, sent, ret, nonOrchVars>>

\* Lines 116-124: one iteration of the simulation loop.
DryRunStep ==
    /\ pc = "dry_run"
    /\ Len(results) < Len(backup_tasks)
    /\ results' = Append(results, DryRunOutcome(backup_tasks[Len(results) + 1]))
    /\ UNCHANGED <<config, pc, repositories, backup_tasks, future, raised, calls,
                   summary, sent, ret, nonOrchVars>>

DryRunDone ==
    /\ pc = "dry_run"
    /\ Len(results) = Len(backup_tasks)
    /\ pc' = "summary"
    /\ UNCHANGED <<config, repositories, backup_tasks, results, future, raised,
                   calls, summary, sent, ret, nonOrchVars>>

\* Lines 128-131: executor.submit for the next task of the comprehension.
Submit ==
    /\ pc = "submit"
    /\ Len(future) < Len(backup_tasks)
    /\ future' = Append(future, [state |-> "pending"])
    /\ UNCHANGED <<config, pc, repositories, backup_tasks, results, raised, calls,
                   summary, sent, ret, nonOrchVars>>

SubmitDone ==
    /\ pc = "submit"
    /\ Len(future) = Len(backup_tasks)
    /\ pc' = "as_completed"
    /\ UNCHANGED <<config, repositories, backup_tasks, results, future, raised,
                   calls, summary, sent, ret, nonOrchVars>>

\* A worker thread of the pool takes the oldest queued work item and calls
\* self.backup_repository, which calls target.backup_repository (line 60).
\* ThreadPoolExecutor(max_workers) runs at most max_workers threads.
WorkerStart ==
    /\ Pending # {}
    /\ Cardinality(Running) < max_workers
    /\ LET i == CHOOSE j \in Pending : \A k \in Pending : j <= k
           t == backup_tasks[i]
       IN  /\ future' = [future EXCEPT ![i] = [state |-> "running"]]
           /\ calls' = [calls EXCEPT ![<<t.repo, t.target>>] = @ + 1]
    /\ UNCHANGED <<config, pc, repositories, backup_tasks, results, raised,
                   summary, sent, ret, nonOrchVars>>

\* Whether the network calls of the adapter's backup_repository are given a
\* timeout: no requests call, git operation or subprocess.run on the backup
\* path of any adapter passes one, and gitlab.Gitlab is built without one, so
\* a call to a destination that never answers blocks for good.
HasCallTimeout(target) == FALSE

\* target.backup_repository returns or raises; the task body turns either into
\* an outcome and the future completes with it.  A call that blocks does
\* neither.
WorkerFinish(i) ==
    /\ i \in Running
    /\ backup_tasks[i].target \in unresponsive => HasCallTimeout(backup_tasks[i].target)
    /\ \E did_raise \in BOOLEAN :
          /\ raised' = IF did_raise THEN raised \cup {i} ELSE raised
          /\ future' = [future EXCEPT ![i] =
                 [state  |-> "finished",
                  result |-> backup_repository(backup_tasks[i].repo,
                                 backup_tasks[i].target, did_raise,
                                 IF did_raise THEN "failed"
                                 ELSE [status |-> "success"])]]
    /\ UNCHANGED <<config, pc, repositories, backup_tasks, results, calls,
                   summary, sent, ret, nonOrchVars>>

\* Lines 133-146: as_completed yields a finished future; its result is appended.
AsCompleted(i) ==
    /\ pc = "as_completed"
    /\ i \in DOMAIN future
    /\ future[i].state = "finished"
    /\ results' = Append(results, future[i].result)
    /\ future' = [future EXCEPT ![i].state = "collected"]
    /\ UNCHANGED <<config, pc, repositories, backup_tasks, raised, calls,
                   summary, sent, ret, nonOrchVars>>

\* Mutant: the collection loop is left after the first completed future and
\* the pool is not joined.
AsCompletedDone_FirstCompleted ==
    /\ pc = "as_completed"
    /\ Collected # {}
    /\ pc' = "summary"
    /\ UNCHANGED <<config, repositories, backup_tasks, results, future, raised,
                   calls, summary, sent, ret, nonOrchVars>>

\* as_completed is exhausted once every future has been yielded; the with
\* block then leaves through executor.shutdown(wait=True).
AsCompletedDone ==
    /\ pc = "as_completed"
    /\ Collected = Tasks
    /\ pc' = "summary"
    /\ UNCHANGED <<config, repositories, backup_tasks, results, future, raised,
                   calls, summary, sent, ret, nonOrchVars>>

\* Lines 148-153.
GenerateSummary ==
    /\ pc = "summary"
    /\ summary' = <<generate_summary(results)>>
    /\ pc' = "notify"
    /\ UNCHANGED <<config, repositories, backup_tasks, results, future, raised,
                   calls, sent, ret, nonOrchVars>>

\* Mutant: the summary is dispatched only when no task failed.
NotifyAndReturn_OnlyOnSuccess ==
    /\ pc = "notify"
    /\ sent' = IF config.dry_run \/ summary[1].failed > 0 THEN sent
               ELSE Append(sent, summary[1])
    /\ ret' = summary
    /\ pc' = "returned"
    /\ UNCHANGED <<config, repositories, backup_tasks, results, future, raised,
                   calls, summary, nonOrchVars>>

\* Lines 155-159.
NotifyAndReturn ==
    /\ pc = "notify"
    /\ sent' = IF config.dry_run THEN sent ELSE Append(sent, summary[1])
    /\ ret' = summary
    /\ pc' = "returned"
    /\ UNCHANGED <<config, repositories, backup_tasks, results, future, raised,
                   calls, summary, nonOrchVars>>

Next ==
    \/ GetRepositories
    \/ NoRepositories
    \/ PrepareTasks
    \/ NoTargets
    \/ BeginExecute
    \/ DryRunStep
    \/ DryRunDone
    \/ Submit
    \/ SubmitDone
    \/ WorkerStart
    \/ \E i \in Running : WorkerFinish(i)
    \/ \E i \in DOMAIN future : AsCompleted(i)
    \/ AsCompletedDone
    \/ GenerateSummary
    \/ NotifyAndReturn

Spec == Init /\ [][Next]_vars

\* The same run against destinations some of which never answer, the threads
\* of the process being scheduled fairly.
LiveInit ==
    /\ OrchInit
    /\ unresponsive \in SUBSET {TargetName(k) : k \in DOMAIN config.backup_targets}
    /\ TargetIdle /\ UnitIdle /\ LocalIdle /\ SchedIdle

LiveSpec == LiveInit /\ [][Next]_vars /\ WF_vars(Next)

\* ======================================================= adapters (TargetSpec)
\* One adapter instance of src/GOBS/backup_targets.py, called repeatedly for
\* the repositories against its destination.  `exists` says whether the
\* destination already holds an entity of the repository's name; `fail` is the
\* set of external steps (HTTP requests, git and CLI invocations) that fail
\* during the call if they are attempted.
Adapters == {"gitlab", "gitea", "radicle"}

\* The external steps an adapter can attempt.
\*   probe        lookup of the existing entity fails with the error the code
\*                treats as "not found" (GitlabGetError, non-200, exception)
\*   probe_fatal  (gitlab) the lookup raises another exception
\*   create       projects.create / POST .../repos / rad init
\*   mirror       remote_mirrors.create / PATCH mirror settings
\*   sync         POST .../mirror-sync
\*   clone, push  Repo.clone_from, remote push / rad push
\*   describe     rad patch --message
\*   ls           rad ls exits non-zero (CalledProcessError: no project id)
\*   ls_fatal     rad ls cannot be run (FileNotFoundError: propagates)
\*   remote_add   rad remote add
\* Only the steps the adapter attempts under its configuration are listed.
StepsOf(cfg) ==
    CASE cfg.adapter = "gitlab" ->
            {"create"}
            \cup (IF cfg.group_id THEN {"probe", "probe_fatal"} ELSE {})
            \cup (IF cfg.create_mirrors THEN {"mirror"} ELSE {"clone", "push"})
      [] cfg.adapter = "gitea" ->
            {"probe", "create"}
            \cup (IF cfg.create_mirrors THEN {"mirror", "sync"} ELSE {})
      [] cfg.adapter = "radicle" ->
            {"clone", "push"}
            \cup (IF cfg.create_project THEN {"create", "describe"}
                  ELSE {"ls", "ls_fatal", "remote_add"})

Opt(cond, x) == IF cond THEN {x} ELSE {}

\* GitLabBackupTarget.backup_repository (lines 77-102) with
\* _get_or_create_project (104-134), _setup_mirror (136-151) and
\* _clone_and_push (153-177).
GitLab_backup_repository(cfg, exists, fail) ==
    LET \* lines 108-116: only with a group_id is an existing project looked up
        probe == IF ~cfg.group_id THEN "skipped"
                 ELSE IF "probe_fatal" \in fail THEN "raised"
                 ELSE IF exists /\ "probe" \notin fail THEN "found"
                 ELSE "not_found"
        \* lines 118-134: create; GitLab rejects a name that is taken
        create_issued == probe \in {"skipped", "not_found"}
        create_ok     == create_issued /\ ~exists /\ "create" \notin fail
        have_project  == probe = "found" \/ create_ok
        \* lines 86-91
        mirror_issued == have_project /\ cfg.create_mirrors
        mirror_ok     == mirror_issued /\ "mirror" \notin fail
        clone_issued  == have_project /\ ~cfg.create_mirrors
        clone_ok      == clone_issued /\ "clone" \notin fail
        push_issued   == clone_ok
        push_ok       == push_issued /\ "push" \notin fail
        did_raise     == \/ probe = "raised"
                         \/ create_issued /\ ~create_ok
                         \/ clone_issued /\ ~push_ok
    IN  [raised        |-> did_raise,
         probed        |-> probe # "skipped",
         create_issued |-> create_issued,
         created       |-> create_ok,
         mirror_issued |-> mirror_issued,
         registered    |-> mirror_ok,
         clone_issued  |-> clone_issued,
         cloned        |-> clone_ok,
         pushed        |-> push_ok,
         failed        |-> Opt(create_issued /\ ~create_ok, "create")
                           \cup Opt(mirror_issued /\ ~mirror_ok, "mirror")
                           \cup Opt(clone_issued /\ ~clone_ok, "clone")
                           \cup Opt(push_issued /\ ~push_ok, "push"),
         result        |-> IF did_raise THEN "failed"
                           ELSE [status |-> "success",
                                 method |-> IF cfg.create_mirrors THEN "mirror"
                                            ELSE "clone_push"]]

\* GiteaBackupTarget.backup_repository (lines 207-234) with _get_repository
\* (236-249), _create_repository (251-267), _setup_mirror (269-286) and
\* _update_mirror (288-299).
Gitea_backup_repository(cfg, exists, fail) ==
    LET found         == exists /\ "probe" \notin fail
        sync_issued   == found /\ cfg.create_mirrors
        sync_ok       == sync_issued /\ "sync" \notin fail
        \* Gitea rejects a name that is taken
        create_issued == ~found
        create_ok     == create_issued /\ ~exists /\ "create" \notin fail
        mirror_issued == create_ok /\ cfg.create_mirrors
        mirror_ok     == mirror_issued /\ "mirror" \notin fail
        did_raise     == create_issued /\ ~create_ok
    IN  [raised        |-> did_raise,
         probed        |-> TRUE,
         create_issued |-> create_issued,
         created       |-> create_ok,
         mirror_issued |-> mirror_issued,
         registered    |-> mirror_ok,
         clone_issued  |-> FALSE,
         cloned        |-> FALSE,
         pushed        |-> FALSE,
         failed        |-> Opt(create_issued /\ ~create_ok, "create")
                           \cup Opt(mirror_issued /\ ~mirror_ok, "mirror")
                           \cup Opt(sync_issued /\ ~sync_ok, "sync"),
         result        |-> IF did_raise THEN "failed"
                           ELSE [status |-> "success",
                                 method |-> IF cfg.create_mirrors THEN "mirror"
                                            ELSE "clone_push"]]

\* RadicleBackupTarget.backup_repository (lines 543-573) with
\* _create_radicle_project (575-594), _push_to_radicle_project (596-610) and
\* _get_project_id (612-623).  `rad init` in a fresh clone makes a new project.
\* _get_project_id matches the name as a substring of a line of `rad ls`; with
\* the names 1..MaxRepos no name is a substring of another.
Radicle_backup_repository(cfg, exists, fail, description) ==
    LET clone_ok      == "clone" \notin fail
        \* lines 558-559, 579-588
        create_issued == clone_ok /\ cfg.create_project
        create_ok     == create_issued /\ "create" \notin fail
        desc_issued   == create_ok /\ description
        desc_ok       == desc_issued /\ "describe" \notin fail
        cpush_issued  == create_ok /\ (desc_issued => desc_ok)
        cpush_ok      == cpush_issued /\ "push" \notin fail
        \* lines 560-562, 598-606
        ls_issued     == clone_ok /\ ~cfg.create_project
        ls_raised     == ls_issued /\ "ls_fatal" \in fail
        found         == ls_issued /\ ~ls_raised /\ exists /\ "ls" \notin fail
        not_found     == ls_issued /\ ~ls_raised /\ ~found
        add_issued    == found
        add_ok        == add_issued /\ "remote_add" \notin fail
        ppush_issued  == add_ok
        ppush_ok      == ppush_issued /\ "push" \notin fail
        did_raise     == \/ ~clone_ok
                         \/ create_issued /\ ~cpush_ok
                         \/ ls_raised
                         \/ add_issued /\ ~ppush_ok
    IN  [raised        |-> did_raise,
         probed        |-> ls_issued,
         create_issued |-> create_issued,
         created       |-> create_ok,
         mirror_issued |-> FALSE,
         registered    |-> FALSE,
         clone_issued  |-> TRUE,
         cloned        |-> clone_ok,
         pushed        |-> cpush_ok \/ ppush_ok,
         failed        |-> Opt(~clone_ok, "clone")
                           \cup Opt(create_issued /\ ~create_ok, "create")
                           \cup Opt(desc_issued /\ ~desc_ok, "describe")
                           \cup Opt(cpush_issued /\ ~cpush_ok, "push")
                           \cup Opt(not_found, "target_not_found")
                           \cup Opt(add_issued /\ ~add_ok, "remote_add")
                           \cup Opt(ppush_issued /\ ~ppush_ok, "push"),
         result        |-> IF did_raise THEN "failed"
                           ELSE [status |-> "success", method |-> "radicle_push"]]

AdapterConfigs ==
    [adapter : {"gitlab"}, create_mirrors : BOOLEAN, group_id : BOOLEAN]
    \cup [adapter : {"gitea"}, create_mirrors : BOOLEAN]
    \cup [adapter : {"radicle"}, create_project : BOOLEAN]

\* The run_backup variables while another model runs.
RunBackupIdle ==
    /\ config = [found |-> 0]
    /\ pc = "idle"
    /\ repositories = <<>>
    /\ backup_tasks = <<>>
    /\ results = <<>>
    /\ future = <<>>
    /\ raised = {}
    /\ calls = NoCalls
    /\ summary = <<>>
    /\ sent = <<>>
    /\ ret = <<>>

\* The run_backup, destination and scheduler variables while the adapter
\* model runs.
OrchIdle == Responsive /\ SchedIdle /\ RunBackupIdle

TargetInit ==
    /\ OrchIdle
    /\ UnitIdle
    /\ LocalIdle
    /\ tcfg \in AdapterConfigs
    /\ entities \in [RepoNames -> {0, 1}]
    /\ mirrors = [r \in RepoNames |-> 0]
    /\ ncalls = [r \in RepoNames |-> 0]
    /\ synced = {}
    /\ last = [n |-> 0]

\* The URL a clone is made from (lines 158-161, 551-553): the ssh_url of a
\* private repository, else the clone_url.  _extract_repository_data always
\* supplies an ssh_url.
CloneSource(private) == IF private THEN "ssh_url" ELSE "clone_url"

\* The URL handed to the destination as import / mirror source: GitLab's
\* project_data['import_url'] (line 123) and mirror_data['url'] (line 141),
\* Gitea's 'clone_addr' (line 276).
MirrorSource(private) == "clone_url"

\* The source URLs a call used, by the step that used them.
SourcesUsed(adapter, private, eff) ==
    Opt(eff.clone_issued, <<"clone", CloneSource(private)>>)
    \cup Opt(eff.mirror_issued, <<"mirror", MirrorSource(private)>>)
    \cup Opt(adapter = "gitlab" /\ eff.create_issued,
             <<"import", MirrorSource(private)>>)

\* The task runs adapter.backup_repository(repo) once: the destination and the
\* bookkeeping after the call, and the outcome the task body reports for it.
ApplyCall(r, private, eff) ==
    /\ entities' = [entities EXCEPT ![r] = IF eff.created THEN @ + 1 ELSE @]
    /\ mirrors' = [mirrors EXCEPT ![r] = IF eff.registered THEN @ + 1 ELSE @]
    /\ ncalls' = [ncalls EXCEPT ![r] = @ + 1]
    /\ synced' = IF eff.raised THEN synced ELSE synced \cup {r}
    /\ last' = [n               |-> ncalls[r] + 1,
                repo            |-> r,
                prior_success   |-> r \in synced,
                entities_before |-> entities[r],
                mirrors_before  |-> mirrors[r],
                create_issued   |-> eff.create_issued,
                mirror_issued   |-> eff.mirror_issued,
                failed          |-> eff.failed,
                private         |-> private,
                sources         |-> SourcesUsed(tcfg.adapter, private, eff),
                registered      |-> eff.registered,
                cloned          |-> eff.cloned,
                pushed          |-> eff.pushed,
                outcome         |-> backup_repository(r, tcfg.adapter, eff.raised,
                                                      eff.result)]
    /\ UNCHANGED <<tcfg, orchVars, unitVars, localVars, envVars, schedVars>>

GitLabBackup(r) ==
    /\ tcfg.adapter = "gitlab"
    /\ ncalls[r] < MaxCalls
    /\ \E eff \in {GitLab_backup_repository(tcfg, entities[r] > 0, fail) :
                        fail \in SUBSET StepsOf(tcfg)}, private \in BOOLEAN :
          ApplyCall(r, private, eff)

GiteaBackup(r) ==
    /\ tcfg.adapter = "gitea"
    /\ ncalls[r] < MaxCalls
    /\ \E eff \in {Gitea_backup_repository(tcfg, entities[r] > 0, fail) :
                        fail \in SUBSET StepsOf(tcfg)}, private \in BOOLEAN :
          ApplyCall(r, private, eff)

RadicleBackup(r) ==
    /\ tcfg.adapter = "radicle"
    /\ ncalls[r] < MaxCalls
    /\ \E eff \in {Radicle_backup_repository(tcfg, entities[r] > 0, x[1], x[2]) :
                        x \in (SUBSET StepsOf(tcfg)) \X BOOLEAN},
          private \in BOOLEAN :
          ApplyCall(r, private, eff)

TargetNext ==
    \/ \E r \in RepoNames : GitLabBackup(r)
    \/ \E r \in RepoNames : GiteaBackup(r)
    \/ \E r \in RepoNames : RadicleBackup(r)

TargetSpec == TargetInit /\ [][TargetNext]_vars

\* ================================================== single calls (UnitSpec)
\* Functions of the engine that depend on their arguments only are applied to
\* inputs drawn in the initial state.  Strings are sequences of characters.

\* ---- BackupTarget._get_token (lines 40-49)
Chars == {"$", "{", "}", "V"}

\* Strings of at most n characters.
Strings(n) == UNION {[1..k -> Chars] : k \in 0..n}

\* str.startswith / str.endswith
startswith(s, p) == Len(s) >= Len(p) /\ SubSeq(s, 1, Len(p)) = p
endswith(s, p) == Len(s) >= Len(p) /\ SubSeq(s, Len(s) - Len(p) + 1, Len(s)) = p

\* Python's s[a:b] for a >= 0 and b < 0.
Slice(s, a, b) ==
    LET hi == IF Len(s) + b < 0 THEN 0 ELSE Len(s) + b
    IN  IF hi <= a THEN <<>> ELSE SubSeq(s, a + 1, hi)

\* os.getenv(name, default) on the environment env (a function from the names
\* that are set to their values).
getenv(env, name, default) == IF name \in DOMAIN env THEN env[name] ELSE default

\* Mutant: an unset variable leaves the placeholder in place.
get_token_KeepsPlaceholder(token, env) ==
    IF startswith(token, <<"$", "{">>) /\ endswith(token, <<"}">>)
    THEN getenv(env, Slice(token, 2, -1), token)
    ELSE token

\* _get_token, on the configured value (the '' default when the key is absent
\* is the empty string among the inputs).
get_token(token, env) ==
    IF startswith(token, <<"$", "{">>) /\ endswith(token, <<"}">>)
    THEN getenv(env, Slice(token, 2, -1), <<>>)
    ELSE token

EnvNames == {<<"V">>}
EnvValues == {<<>>, <<"s">>, <<"$", "{", "V", "}">>}
Environments == UNION {[ns -> EnvValues] : ns \in SUBSET EnvNames}

\* ---- the adapters' constructors and test_connection
AdapterKinds ==
    {"gitlab", "gitea", "bitbucket", "local", "radicle", "gittorrent", "ipfs", "dat"}

\* The credentials a constructor resolves with _get_token (lines 57, 185,
\* 307-308).
CredentialKeys(adapter) ==
    CASE adapter \in {"gitlab", "gitea"} -> <<"token">>
      [] adapter = "bitbucket"          -> <<"username", "app_password">>
      [] OTHER                          -> <<>>

\* Configured credential values: absent, a literal, a placeholder.
CredentialChoices == {<<>>, <<"V">>, <<"$", "{", "V", "}">>}

\* __init__ of an adapter: the fields test_connection reads.  None of the
\* constructors of the HTTP adapters has a statement that raises on string
\* credentials; GitLab builds its client only when enabled with a token.
Construct(adapter, enabled, creds, url, env) ==
    LET resolved == [i \in 1..Len(creds) |-> get_token(creds[i], env)]
    IN  [raised  |-> FALSE,
         enabled |-> enabled,
         creds   |-> resolved,
         url     |-> url,
         client  |-> adapter = "gitlab" /\ enabled /\ resolved[1] # <<>>]

\* Exception classes and their base classes.
Bases(exc) ==
    CASE exc = "HTTPError"              -> {"HTTPError", "RequestException", "OSError", "Exception"}
      [] exc = "RequestsJSONDecodeError" -> {"RequestsJSONDecodeError", "RequestException",
                                            "ValueError", "OSError", "Exception"}
      [] exc = "ValueError"             -> {"ValueError", "Exception"}
      [] exc = "GitlabError"            -> {"GitlabError", "Exception"}
      [] exc = "FileNotFoundError"      -> {"FileNotFoundError", "OSError", "Exception"}
      [] exc = "PermissionError"        -> {"PermissionError", "OSError", "Exception"}
      [] exc = "CalledProcessError"     -> {"CalledProcessError", "SubprocessError", "Exception"}

\* The except clause of each test_connection.
Caught(adapter) ==
    CASE adapter \in {"gitlab", "gitea", "bitbucket", "local"} -> {"Exception"}
      [] adapter \in {"radicle", "dat"} -> {"CalledProcessError", "FileNotFoundError"}
      [] adapter = "gittorrent" ->
            {"CalledProcessError", "FileNotFoundError", "RequestException"}
      [] adapter = "ipfs" -> {"RequestException"}

Handles(adapter, exc) == Caught(adapter) \cap Bases(exc) # {}

NoFailure == [kind |-> "none", exc |-> "none"]

\* What the probe of an adapter can fail with.  response.json() on a body
\* that is not JSON raises a RequestException subclass or a plain ValueError,
\* depending on the installed requests version.
HttpFailures == {[kind |-> "http_error", exc |-> "HTTPError"]}
BodyFailures ==
    {[kind |-> "malformed_body", exc |-> e] : e \in {"RequestsJSONDecodeError", "ValueError"}}
CliFailures ==
    {[kind |-> "missing_binary", exc |-> "FileNotFoundError"],
     [kind |-> "nonzero_exit", exc |-> "CalledProcessError"],
     [kind |-> "os_error", exc |-> "PermissionError"]}
FileFailures == {[kind |-> "os_error", exc |-> "PermissionError"]}

ProbeFailures(adapter) ==
    CASE adapter = "gitlab"     -> {[kind |-> "http_error", exc |-> "GitlabError"]}
      [] adapter \in {"gitea", "bitbucket", "ipfs"} -> HttpFailures \cup BodyFailures
      [] adapter = "local"      -> FileFailures
      [] adapter \in {"radicle", "dat"} -> CliFailures
      [] adapter = "gittorrent" -> CliFailures \cup HttpFailures

\* test_connection of the adapter self: result is "True", "False" or "raised";
\* io tells whether the probe was started.
test_connection(adapter, self, failure) ==
    IF ~self.enabled
    THEN [result |-> "False", io |-> FALSE]
    ELSE IF \E i \in 1..Len(self.creds) : self.creds[i] = <<>>
    THEN [result |-> "False", io |-> FALSE]
    ELSE IF adapter = "gitea" /\ ~self.url
    THEN [result |-> "False", io |-> FALSE]
    ELSE IF failure.kind = "none"
    THEN [result |-> "True", io |-> TRUE]
    ELSE IF Handles(adapter, failure.exc)
    THEN [result |-> "False", io |-> TRUE]
    ELSE [result |-> "raised", io |-> TRUE]

\* ---- GitHubBackup.get_repositories and _should_include_repository
\* A pattern is a sequence of literal characters and ".*" tokens; re.match
\* anchors the pattern at the start of the name only.
RECURSIVE re_match(_, _)
re_match(pattern, s) ==
    IF pattern = <<>> THEN TRUE
    ELSE IF Head(pattern) = ".*"
    THEN \E k \in 0..Len(s) : re_match(Tail(pattern), SubSeq(s, k + 1, Len(s)))
    ELSE s # <<>> /\ Head(s) = Head(pattern) /\ re_match(Tail(pattern), Tail(s))

ExampleNames ==
    << <<"a", "-", "l", "i", "b">>, <<"a", "-", "t", "e", "s", "t">>,
       <<"b", "-", "l", "i", "b">> >>

Patterns == { <<"a", "-", ".*">>, <<"b", "-", ".*">>, <<"b">> }

PatternLists(n) == UNION {[1..k -> Patterns] : k \in 0..n}

\* The flags of one repository: none set, or one of them.
RepoFlags ==
    {[private |-> p, archived |-> a, fork |-> f] :
        <<p, a, f>> \in {<<FALSE, FALSE, FALSE>>, <<TRUE, FALSE, FALSE>>,
                         <<FALSE, TRUE, FALSE>>, <<FALSE, FALSE, TRUE>>}}

\* Mutant: a matching include pattern admits the repository before the
\* exclude patterns are looked at.
should_include_repository_IncludeFirst(repo, f) ==
    IF repo.private /\ ~f.include_private THEN FALSE
    ELSE IF repo.archived /\ ~f.include_archived THEN FALSE
    ELSE IF repo.fork /\ ~f.include_forks THEN FALSE
    ELSE IF \E i \in 1..Len(f.include_patterns) : re_match(f.include_patterns[i], repo.name)
    THEN TRUE
    ELSE IF \E i \in 1..Len(f.exclude_patterns) : re_match(f.exclude_patterns[i], repo.name)
    THEN FALSE
    ELSE f.include_patterns = <<>>

\* _should_include_repository (lines 132-169), in the order of its returns.
should_include_repository(repo, f) ==
    IF repo.private /\ ~f.include_private THEN FALSE
    ELSE IF repo.archived /\ ~f.include_archived THEN FALSE
    ELSE IF repo.fork /\ ~f.include_forks THEN FALSE
    ELSE IF \E i \in 1..Len(f.exclude_patterns) : re_match(f.exclude_patterns[i], repo.name)
    THEN FALSE
    ELSE IF f.include_patterns # <<>>
    THEN \E i \in 1..Len(f.include_patterns) : re_match(f.include_patterns[i], repo.name)
    ELSE TRUE

\* get_repositories (lines 73-91): the descriptors of the organization's
\* repositories that pass, in the order GitHub lists them.
get_repositories(org, f) == SelectSeq(org, LAMBDA repo : should_include_repository(repo, f))

\* ---- BackupTargetFactory.create_targets on any configuration
UnrecognisedKeys == {"local", "s3"}

FactoryConfigs ==
    UNION {[ks -> [enabled : BOOLEAN]] :
              ks \in SUBSET ({FactoryOrder[i] : i \in 1..Len(FactoryOrder)}
                             \cup UnrecognisedKeys)}

\* ---- IPFSBackupTarget.backup_repository and _create_archive
\* A file name is the sequence of its '.'-separated parts.
\* os.path.splitext: the name without its last extension.
splitext(name) == IF Len(name) > 1 THEN SubSeq(name, 1, Len(name) - 1) ELSE name

\* shutil.make_archive(base_name, format, root_dir): the file it writes is
\* base_name plus the extension of the format.
make_archive(base_name, format) ==
    base_name \o (IF format = "gztar" THEN <<"tar", "gz">> ELSE <<"tar">>)

\* _create_archive (lines 795-819): the path it returns and the file it wrote.
create_archive(compression) ==
    LET archive_path == <<"name_timestamp", "tar", "gz">>
    IN  [returned |-> archive_path,
         written  |-> make_archive(splitext(archive_path),
                                   IF compression THEN "gztar" ELSE "tar")]

IpfsSteps == {"clone", "archive", "upload", "pin"}

\* backup_repository (lines 759-793); fail holds the external steps that
\* fail if they are attempted.  open() of a file that does not exist raises
\* in _upload_to_ipfs; a failed pin is only logged (lines 839-849).
IPFS_backup_repository(compression, pin_on_upload, fail) ==
    LET archive == create_archive(compression)
        opened  == archive.returned = archive.written
        status  == IF "clone" \in fail THEN "raised"
                   ELSE IF "archive" \in fail THEN "raised"
                   ELSE IF ~opened THEN "raised"
                   ELSE IF "upload" \in fail THEN "raised"
                   ELSE "success"
    IN  [archive |-> archive,
         opened  |-> "clone" \notin fail /\ "archive" \notin fail /\ opened,
         status  |-> status]

\* ---- NotificationManager.send_backup_summary and send_error_notification
\* The sinks in the order both methods go through them.
SinkOrder == <<"email", "slack", "webhook">>
Sinks == {SinkOrder[i] : i \in DOMAIN SinkOrder}

\* A sender that lets the failure of its sink out.
sink_sender_Propagates(sink, failing) ==
    IF sink \in failing THEN "raised" ELSE "delivered"

\* _send_email_notification, _send_slack_notification, _send_webhook_notification
\* and the three _send_*_error methods: the whole body is in a try whose
\* except Exception clause logs the failure.
sink_sender(sink, failing) ==
    IF sink \in failing THEN "logged" ELSE "delivered"

\* The body of both methods from sink i on: the sinks configured enabled are
\* called in turn; an exception that leaves a sender ends the try block.
RECURSIVE Dispatch(_, _, _, _)
Dispatch(i, enabled, failing, acc) ==
    IF i > Len(SinkOrder) THEN acc
    ELSE LET sink == SinkOrder[i]
             r    == sink_sender(sink, failing)
         IN  IF sink \notin enabled THEN Dispatch(i + 1, enabled, failing, acc)
             ELSE IF r = "raised"
                  THEN [acc EXCEPT !.attempted = @ \cup {sink}, !.caught = TRUE]
                  ELSE Dispatch(i + 1, enabled, failing,
                                [acc EXCEPT !.attempted = @ \cup {sink},
                                            !.logged = IF r = "logged" THEN @ \cup {sink} ELSE @,
                                            !.delivered = IF r = "delivered" THEN @ \cup {sink} ELSE @])

NothingSent == [attempted |-> {}, logged |-> {}, delivered |-> {}, caught |-> FALSE]

\* send_backup_summary (lines 29-45): the outer except Exception logs whatever
\* left the body, the method returns normally.
send_backup_summary(enabled, failing) ==
    [raised |-> FALSE] @@ Dispatch(1, enabled, failing, NothingSent)

\* send_error_notification (lines 47-69): the same over the _send_*_error senders.
send_error_notification(enabled, failing) ==
    [raised |-> FALSE] @@ Dispatch(1, enabled, failing, NothingSent)

\* The end of a live run_backup (lines 155-159): the summary is sent, then returned.
run_backup_return(enabled, failing) ==
    IF send_backup_summary(enabled, failing).raised THEN "raised" ELSE "summary"

NotifyInput(m, enabled, failing) ==
    [op |-> "notify", method |-> m, enabled |-> enabled, failing |-> failing,
     done |-> FALSE]

\* ---- the inputs and the calls
IpfsInput(c, pin, fail) ==
    [op |-> "ipfs_backup", compression |-> c, pin_on_upload |-> pin,
     fail |-> fail, done |-> FALSE]

TokenInput(t, e) == [op |-> "get_token", token |-> t, env |-> e, done |-> FALSE]

ConnectionInput(a, en, c, u, e, fl) ==
    [op |-> "test_connection", adapter |-> a, enabled |-> en, creds |-> c,
     url |-> u, env |-> e, failure |-> fl, done |-> FALSE]

\* The organization's repositories: the i-th has the flags fl[i].
FilterInput(fl, b, ex, inc) ==
    [op |-> "get_repositories",
     org |-> [i \in 1..Len(ExampleNames) |->
                [name |-> ExampleNames[i], private |-> fl[i].private,
                 archived |-> fl[i].archived, fork |-> fl[i].fork]],
     filters |-> [include_private |-> b[1], include_archived |-> b[2],
                  include_forks |-> b[3], exclude_patterns |-> ex,
                  include_patterns |-> inc],
     done |-> FALSE]

FactoryInput(c) == [op |-> "create_targets", cfg |-> c, done |-> FALSE]

UnitInit ==
    /\ OrchIdle
    /\ TargetIdle
    /\ LocalIdle
    /\ \/ \E t \in Strings(MaxTokenLen), e \in Environments : unit = TokenInput(t, e)
       \/ \E a \in AdapterKinds, en \in BOOLEAN, e \in Environments :
          \E c \in [1..Len(CredentialKeys(a)) -> CredentialChoices],
             u \in (IF a = "gitea" THEN BOOLEAN ELSE {TRUE}),
             fl \in ProbeFailures(a) \cup {NoFailure} :
             unit = ConnectionInput(a, en, c, u, e, fl)
       \/ \E fl \in [1..Len(ExampleNames) -> RepoFlags], b \in [1..3 -> BOOLEAN] :
          \E ex \in PatternLists(MaxPatterns), inc \in PatternLists(MaxPatterns) :
             unit = FilterInput(fl, b, ex, inc)
       \/ \E c \in FactoryConfigs : unit = FactoryInput(c)
       \/ \E c \in BOOLEAN, pin \in BOOLEAN, fail \in SUBSET IpfsSteps :
             unit = IpfsInput(c, pin, fail)
       \/ \E m \in {"send_backup_summary", "send_error_notification"},
             enabled \in SUBSET Sinks, failing \in SUBSET Sinks :
             unit = NotifyInput(m, enabled, failing)

\* The call returns (or raises): its output joins the record.
Return(out) ==
    /\ ~unit.done
    /\ unit' = ("out" :> out) @@ [unit EXCEPT !.done = TRUE]
    /\ UNCHANGED <<orchVars, tgtVars, localVars, envVars, schedVars>>

GetToken ==
    /\ unit.op = "get_token"
    /\ Return(get_token(unit.token, unit.env))

TestConnection ==
    /\ unit.op = "test_connection"
    /\ LET self == Construct(unit.adapter, unit.enabled, unit.creds, unit.url, unit.env)
       IN  Return([self |-> self,
                   test |-> test_connection(unit.adapter, self, unit.failure)])

GetRepositoriesFiltered ==
    /\ unit.op = "get_repositories"
    /\ Return(get_repositories(unit.org, unit.filters))

CreateTargets ==
    /\ unit.op = "create_targets"
    /\ Return(create_targets(unit.cfg))

IpfsBackup ==
    /\ unit.op = "ipfs_backup"
    /\ Return(IPFS_backup_repository(unit.compression, unit.pin_on_upload, unit.fail))

Notify ==
    /\ unit.op = "notify"
    /\ Return(IF unit.method = "send_backup_summary"
              THEN [ret |-> run_backup_return(unit.enabled, unit.failing)]
                   @@ send_backup_summary(unit.enabled, unit.failing)
              ELSE send_error_notification(unit.enabled, unit.failing))

UnitNext ==
    \/ GetToken
    \/ TestConnection
    \/ GetRepositoriesFiltered
    \/ CreateTargets
    \/ IpfsBackup
    \/ Notify

UnitSpec == UnitInit /\ [][UnitNext]_vars

\* ============================================ LocalBackupTarget (LocalSpec)
\* One run's local tasks, one per repository, working concurrently in the same
\* backup directory.  A name is the sequence of its '_'-separated parts, so
\* 'app_web' is <<"app", "web">>; the entry a task creates is named
\* f"{repo_name}_{timestamp}", the timestamp ('%Y%m%d_%H%M%S') being two more
\* parts.  Each call reads a later timestamp than the entries that exist, and
\* nothing but the tasks touches the directory, so that an entry's ctime is
\* the time it was last written.

LocalRepos == { <<"app">>, <<"app", "web">> }

\* The parts of the name of a directory entry, without the '.tar.gz' suffix.
ItemName(x) == x.repo \o <<"date", "time">>

\* item.startswith(f"{repo_name}_")
StartsWithRepo(x, r) ==
    startswith(ItemName(x), r) /\ Len(ItemName(x)) > Len(r)

\* Line 494: the entries _cleanup_old_versions takes for backups of r.
IsBackupOf(x, r, compress) ==
    StartsWithRepo(x, r) /\ ((compress /\ x.kind = "archive") \/ ~compress)

\* backups.sort(key=getctime, reverse=True): newest first.  The ctimes of the
\* entries of a directory are distinct here.
RECURSIVE SortNewestFirst(_)
SortNewestFirst(S) ==
    IF S = {} THEN <<>>
    ELSE LET x == CHOOSE y \in S : \A z \in S : z.ctime <= y.ctime
         IN  <<x>> \o SortNewestFirst(S \ {x})

\* backups[keep_versions:]
DropFirst(s, n) == IF n >= Len(s) THEN <<>> ELSE SubSeq(s, n + 1, Len(s))

\* Lines 492-502: the entries the loop is going to remove.
StaleBackups(dir, r, cfg) ==
    DropFirst(SortNewestFirst({x \in dir : IsBackupOf(x, r, cfg.compress)}),
              cfg.keep_versions)

LocalConfigs == [keep_versions : 0..MaxKeep, compress : BOOLEAN]

NoTask ==
    [pc |-> "idle", ts |-> 0, p_before |-> 0, stale |-> <<>>, todo |-> <<>>,
     del_failed |-> {}, after |-> {}, left |-> {}]

\* The snapshots of earlier runs: n[r] of them for repository r, all of one
\* repository older than all of the other.
OldSnapshots(n, first, compress) ==
    UNION {{[repo |-> r, kind |-> IF compress THEN "archive" ELSE "dir",
             ts |-> (IF r = first THEN 0 ELSE MaxOld) + j,
             ctime |-> (IF r = first THEN 0 ELSE MaxOld) + j,
             complete |-> TRUE] : j \in 1..n[r]} : r \in LocalRepos}

LocalInit ==
    /\ OrchIdle
    /\ TargetIdle
    /\ UnitIdle
    /\ lcfg \in LocalConfigs
    /\ \E n \in [LocalRepos -> 0..MaxOld], first \in LocalRepos :
          fs = OldSnapshots(n, first, lcfg.compress)
    /\ ltask = [r \in LocalRepos |-> NoTask]
    /\ clock = 2 * MaxOld
    /\ removed = {}

\* The entry of the call of r of the given kind, if it is in the directory.
Own(r, kind) == {x \in fs : x.repo = r /\ x.ts = ltask[r].ts /\ x.kind = kind}

Touched(x) == [x EXCEPT !.ctime = clock + 1]

LocalFrame == UNCHANGED <<lcfg, orchVars, tgtVars, unitVars, envVars, schedVars>>

\* Lines 448-460: the call reads the clock and git starts to fill backup_dir.
CloneBegin(r) ==
    /\ ltask[r].pc = "idle"
    /\ clock' = clock + 1
    /\ fs' = fs \cup {[repo |-> r, ts |-> clock + 1, kind |-> "dir",
                       ctime |-> clock + 1, complete |-> FALSE]}
    /\ ltask' = [ltask EXCEPT ![r] =
                    [@ EXCEPT !.pc = "cloning", !.ts = clock + 1,
                              !.p_before = Cardinality({x \in fs : x.repo = r})]]
    /\ UNCHANGED removed
    /\ LocalFrame

\* Line 460 returns.  A failing git clone removes the directory it created
\* before Repo.clone_from raises; so does a clone whose directory was taken
\* away under it.
CloneEnd(r) ==
    /\ ltask[r].pc = "cloning"
    /\ clock' = clock + 1
    /\ \E ok \in BOOLEAN :
          IF ok /\ Own(r, "dir") # {}
          THEN /\ fs' = (fs \ Own(r, "dir")) \cup
                        {[Touched(x) EXCEPT !.complete = TRUE] : x \in Own(r, "dir")}
               /\ ltask' = [ltask EXCEPT ![r].pc =
                               IF lcfg.compress THEN "archive" ELSE "cleanup"]
          ELSE /\ fs' = fs \ Own(r, "dir")
               /\ ltask' = [ltask EXCEPT ![r].pc = "raised"]
    /\ UNCHANGED removed
    /\ LocalFrame

\* Line 465: shutil.make_archive starts to write backup_dir.tar.gz.
ArchiveBegin(r) ==
    /\ ltask[r].pc = "archive"
    /\ clock' = clock + 1
    /\ fs' = fs \cup {[repo |-> r, ts |-> ltask[r].ts, kind |-> "archive",
                       ctime |-> clock + 1, complete |-> FALSE]}
    /\ ltask' = [ltask EXCEPT ![r].pc = "archiving"]
    /\ UNCHANGED removed
    /\ LocalFrame

\* make_archive returns, or raises (disk full, the archive or the directory
\* taken away): the except clause of line 480 logs and re-raises, and nothing
\* removes backup_dir or the part of the archive that was written.
ArchiveEnd(r) ==
    /\ ltask[r].pc = "archiving"
    /\ clock' = clock + 1
    /\ \E ok \in BOOLEAN :
          IF ok /\ Own(r, "archive") # {} /\ Own(r, "dir") # {}
          THEN /\ fs' = (fs \ Own(r, "archive")) \cup
                        {[Touched(x) EXCEPT !.complete = TRUE] : x \in Own(r, "archive")}
               /\ ltask' = [ltask EXCEPT ![r].pc = "rmtree"]
          ELSE /\ fs' = fs
               /\ ltask' = [ltask EXCEPT ![r].pc = "raised"]
    /\ UNCHANGED removed
    /\ LocalFrame

\* Line 466: shutil.rmtree(backup_dir); a failure raises out of the call.
Rmtree(r) ==
    /\ ltask[r].pc = "rmtree"
    /\ \E ok \in BOOLEAN :
          IF ok
          THEN /\ fs' = fs \ Own(r, "dir")
               /\ ltask' = [ltask EXCEPT ![r].pc = "cleanup"]
          ELSE /\ fs' = fs
               /\ ltask' = [ltask EXCEPT ![r].pc = "raised"]
    /\ UNCHANGED <<clock, removed>>
    /\ LocalFrame

\* Lines 486-499: _cleanup_old_versions lists and sorts the directory.
CleanupList(r) ==
    /\ ltask[r].pc = "cleanup"
    /\ LET stale == StaleBackups(fs, r, lcfg)
       IN  ltask' = [ltask EXCEPT ![r] =
                        [@ EXCEPT !.pc = "removing", !.stale = stale, !.todo = stale]]
    /\ UNCHANGED <<fs, clock, removed>>
    /\ LocalFrame

\* Lines 502-507, one round of the loop: an entry that is gone is neither a
\* file nor a directory and is skipped; a failing os.remove / shutil.rmtree
\* leaves the loop through the except clause of line 509, which only logs.
RemoveOne(r) ==
    /\ ltask[r].pc = "removing"
    /\ ltask[r].todo # <<>>
    /\ LET x == Head(ltask[r].todo)
       IN  \E ok \in BOOLEAN :
              IF x \notin fs
              THEN /\ ltask' = [ltask EXCEPT ![r].todo = Tail(@)]
                   /\ UNCHANGED <<fs, removed>>
              ELSE IF ok
              THEN /\ fs' = fs \ {x}
                   /\ removed' = removed \cup {[by |-> r, item |-> x]}
                   /\ ltask' = [ltask EXCEPT ![r].todo = Tail(@)]
              ELSE /\ ltask' = [ltask EXCEPT ![r] =
                                   [@ EXCEPT !.todo = <<>>,
                                             !.del_failed = @ \cup {x}]]
                   /\ UNCHANGED <<fs, removed>>
    /\ UNCHANGED clock
    /\ LocalFrame

\* Lines 473-477: the call returns {'status': 'success', ...}.
LocalReturn(r) ==
    /\ ltask[r].pc = "removing"
    /\ ltask[r].todo = <<>>
    /\ ltask' = [ltask EXCEPT ![r] =
                    [@ EXCEPT !.pc = "done",
                              !.after = {x \in fs : x.repo = r},
                              !.left = {x \in fs : \E i \in 1..Len(ltask[r].stale) :
                                                      ltask[r].stale[i] = x}]]
    /\ UNCHANGED <<fs, clock, removed>>
    /\ LocalFrame

LocalNext ==
    \E r \in LocalRepos :
        \/ CloneBegin(r)
        \/ CloneEnd(r)
        \/ ArchiveBegin(r)
        \/ ArchiveEnd(r)
        \/ Rmtree(r)
        \/ CleanupList(r)
        \/ RemoveOne(r)
        \/ LocalReturn(r)

LocalSpec == LocalInit /\ [][LocalNext]_vars

\* ================================================= scheduler (SchedSpec)
\* sync_interval_hours of a target without the key.
DefaultInterval == 24

\* target_config.get('sync_interval_hours', 24)
interval_hours(target_config) ==
    IF "sync_interval_hours" \in DOMAIN target_config
    THEN target_config.sync_interval_hours
    ELSE DefaultInterval

\* The loop of start_scheduler over backup_targets at time t:
\* schedule.every(interval_hours).hours.do(self.run_scheduled_backup) for
\* every enabled entry, one job each, first due one interval from t.
schedule_jobs(targets, t) ==
    LET en == SelectSeq(targets, LAMBDA c : c.enabled)
    IN  [i \in 1..Len(en) |->
            [interval |-> interval_hours(en[i]),
             next_run |-> t + interval_hours(en[i])]]

\* schedule.run_pending: the jobs whose next_run has come, earliest first
\* (jobs due at the same time in the order they were registered).
RECURSIVE SortByNextRun(_, _)
SortByNextRun(js, idx) ==
    IF idx = {} THEN <<>>
    ELSE LET first == CHOOSE i \in idx :
                        \A k \in idx :
                            \/ js[i].next_run < js[k].next_run
                            \/ js[i].next_run = js[k].next_run /\ i <= k
         IN  <<first>> \o SortByNextRun(js, idx \ {first})

runnable_jobs(js, t) ==
    SortByNextRun(js, {i \in DOMAIN js : t >= js[i].next_run})

\* What one run_backup() call of the scheduler does, seen from its caller.
RunOutcomes == {"summary", "no_repositories", "no_targets", "raised"}

\* run_backup with dry_run = False sends the summary before it returns it;
\* the two early returns and an exception send nothing.
run_backup_notes(outcome) ==
    IF outcome = "summary"
    THEN << [call |-> "send_backup_summary", arg |-> [type |-> "RunSummary"]] >>
    ELSE <<>>

\* run_scheduled_backup without the try.
run_scheduled_backup_NoCatch(outcome) ==
    [notes |-> run_backup_notes(outcome), raised |-> outcome = "raised"]

\* run_scheduled_backup (lines 239-245): an exception of run_backup is logged
\* and reported with send_error_notification(f"Scheduled backup failed: {e}").
run_scheduled_backup(outcome) ==
    [notes |-> run_backup_notes(outcome) \o
               (IF outcome = "raised"
                THEN << [call |-> "send_error_notification",
                         arg |-> [type |-> "str",
                                  text |-> <<"Scheduled backup failed: ", "e">>]] >>
                ELSE <<>>),
     raised |-> FALSE]

SchedTargetConfigs == [enabled : BOOLEAN, sync_interval_hours : 1..MaxInterval]

SchedConfigs ==
    UNION { [1..n -> SchedTargetConfigs] : n \in 1..MaxSchedTargets }

SchedInit ==
    /\ Responsive /\ RunBackupIdle /\ TargetIdle /\ UnitIdle /\ LocalIdle
    /\ \E t \in SchedConfigs : scfg = [targets |-> t]
    /\ jobs = <<>>
    /\ now = 0
    /\ spc = "start"
    /\ due = <<>>
    /\ active = 0
    /\ runlog = <<>>
    /\ notes = <<>>

SchedFrame == UNCHANGED <<scfg, orchVars, tgtVars, unitVars, localVars, envVars>>

\* start_scheduler up to the loop (lines 247-256).
StartScheduler ==
    /\ spc = "start"
    /\ jobs' = schedule_jobs(scfg.targets, now)
    /\ spc' = "loop"
    /\ UNCHANGED <<now, due, active, runlog, notes>>
    /\ SchedFrame

\* schedule.run_pending() collects the runnable jobs (line 260).
RunPending ==
    /\ spc = "loop"
    /\ due' = runnable_jobs(jobs, now)
    /\ spc' = "pending"
    /\ UNCHANGED <<jobs, now, active, runlog, notes>>
    /\ SchedFrame

\* A scheduler that hands the job to a thread of its own and goes on.
RunBegin_Threaded ==
    /\ spc = "pending"
    /\ due # <<>>
    /\ Len(runlog) < MaxRuns
    /\ active' = active + 1
    /\ runlog' = Append(runlog, [job |-> Head(due), start |-> now, end |-> -1,
                                 outcome |-> "running"])
    /\ due' = Tail(due)
    /\ UNCHANGED <<jobs, now, spc, notes>>
    /\ SchedFrame

\* run_pending calls the next runnable job on the scheduler's own thread:
\* run_scheduled_backup enters run_backup.
RunBegin ==
    /\ spc = "pending"
    /\ due # <<>>
    /\ Len(runlog) < MaxRuns
    /\ active' = active + 1
    /\ runlog' = Append(runlog, [job |-> Head(due), start |-> now, end |-> -1,
                                 outcome |-> "running"])
    /\ spc' = "running"
    /\ UNCHANGED <<jobs, now, due, notes>>
    /\ SchedFrame

\* Time passes while run_backup works.
Tick ==
    /\ spc = "running"
    /\ now < MaxTime
    /\ now' = now + 1
    /\ UNCHANGED <<jobs, spc, due, active, runlog, notes>>
    /\ SchedFrame

\* run_backup ends and run_scheduled_backup returns or raises; the schedule
\* library then sets the job's next run one interval from now.  An exception
\* that leaves the job leaves run_pending and start_scheduler too.
RunEnd ==
    /\ spc = "running"
    /\ \E outcome \in RunOutcomes :
        LET r == run_scheduled_backup(outcome)
            n == Len(runlog)
            j == runlog[n].job
        IN  /\ runlog' = [runlog EXCEPT ![n].end = now, ![n].outcome = outcome]
            /\ notes' = notes \o [k \in 1..Len(r.notes) |-> [run |-> n] @@ r.notes[k]]
            /\ active' = active - 1
            /\ IF r.raised
               THEN /\ spc' = "crashed"
                    /\ UNCHANGED <<jobs, due>>
               ELSE /\ jobs' = [jobs EXCEPT ![j].next_run = now + jobs[j].interval]
                    /\ due' = Tail(due)
                    /\ spc' = "pending"
    /\ UNCHANGED now
    /\ SchedFrame

\* run_pending has run every job it collected.
PendingDone ==
    /\ spc = "pending"
    /\ due = <<>>
    /\ spc' = "sleep"
    /\ UNCHANGED <<jobs, now, due, active, runlog, notes>>
    /\ SchedFrame

\* time.sleep(60) (line 261): a minute later the hour may have changed.
Sleep ==
    /\ spc = "sleep"
    /\ \E t \in {now, now + 1} :
        /\ t <= MaxTime
        /\ now' = t
    /\ spc' = "loop"
    /\ UNCHANGED <<jobs, due, active, runlog, notes>>
    /\ SchedFrame

\* Ctrl+C (lines 262-263): KeyboardInterrupt is not an Exception, it ends a
\* run in progress and the loop.
Interrupt ==
    /\ spc \in {"loop", "pending", "running", "sleep"}
    /\ spc' = "stopped"
    /\ IF spc = "running"
       THEN /\ active' = active - 1
            /\ runlog' = [runlog EXCEPT ![Len(runlog)].end = now,
                                        ![Len(runlog)].outcome = "interrupted"]
       ELSE UNCHANGED <<active, runlog>>
    /\ UNCHANGED <<jobs, now, due, notes>>
    /\ SchedFrame

SchedNext ==
    \/ StartScheduler
    \/ RunPending
    \/ RunBegin
    \/ Tick
    \/ RunEnd
    \/ PendingDone
    \/ Sleep
    \/ Interrupt

SchedSpec == SchedInit /\ [][SchedNext]_vars

\* ================================================================ claims
\* What the configuration says, independently of the run: the repositories
\* GitHub yields, the names of the adapters configured enabled, their pairs.
FoundRepos == 1..config.found

EnabledNames ==
    {TargetName(k) : k \in {x \in DOMAIN config.backup_targets :
                                config.backup_targets[x].enabled}}

DisabledNames ==
    {TargetName(k) : k \in {x \in DOMAIN config.backup_targets :
                                ~config.backup_targets[x].enabled}}

Pairs == FoundRepos \X EnabledNames

ReturnedSummary == pc = "returned" /\ ret # <<>> /\ "results" \in DOMAIN ret[1]

OutcomesFor(res, p) ==
    {i \in 1..Len(res) : res[i].repository = p[1] /\ res[i].target = p[2]}

TasksOf(t) == {i \in Tasks : backup_tasks[i].target = t}

\* C1: a run with M >= 1 repositories and N >= 1 enabled adapters returns a
\* summary whose results hold exactly N*M outcomes, exactly one per
\* (repository, adapter) pair, each success, error or dry_run, and
\* successful + failed + dry_run = total_backups = N*M.
C1_OneOutcomePerPair ==
    (pc = "returned" /\ config.found >= 1 /\ EnabledNames # {}) =>
        /\ ReturnedSummary
        /\ LET s == ret[1]
               nm == Cardinality(EnabledNames) * config.found
           IN  /\ Len(s.results) = nm
               /\ \A p \in Pairs : Cardinality(OutcomesFor(s.results, p)) = 1
               /\ \A i \in 1..Len(s.results) :
                     s.results[i].status \in {"success", "error", "dry_run"}
               /\ s.successful + s.failed + s.dry_run = s.total_backups
               /\ s.total_backups = nm

C1_Witness ==
    /\ ReturnedSummary
    /\ config.found = 2
    /\ Cardinality(EnabledNames) = 2
    /\ Len(ret[1].results) = 4
    /\ ret[1].successful = 3
    /\ ret[1].failed = 1

\* C2: in a live run a task whose adapter call raises yields an 'error'
\* outcome for its pair and aborts neither run_backup nor a sibling task: the
\* run returns, every task whose adapter call returned is reported 'success',
\* and successful / failed count the returning / raising tasks (2 and 2 for
\* adapters {A returns, B raises} and repositories {r1, r2}).
C2_ErrorIsolated ==
    /\ (pc = "raised" => config.discovery = "error")
    /\ (pc = "returned" /\ ~config.dry_run /\ backup_tasks # <<>>) =>
          /\ ReturnedSummary
          /\ \A i \in Tasks :
                LET t == backup_tasks[i]
                    o == OutcomesFor(ret[1].results, <<t.repo, t.target>>)
                IN  \A k \in o :
                       ret[1].results[k].status =
                           IF i \in raised THEN "error" ELSE "success"
          /\ ret[1].successful = Cardinality(Tasks \ raised)
          /\ ret[1].failed = Cardinality(raised)

\* Adapters {gitlab: returns, local: raises}, repositories {1, 2}; (1, local)
\* failed first and (2, gitlab) is reported 'success' after it.
C2_Witness ==
    /\ ReturnedSummary
    /\ ~config.dry_run
    /\ config.found = 2
    /\ EnabledNames = {"gitlab", "local"}
    /\ raised = TasksOf("local")
    /\ ret[1].successful = 2
    /\ ret[1].failed = 2
    /\ ret[1].results[1] =
          [repository |-> 1, target |-> "local", status |-> "error",
           error |-> "failed"]
    /\ \E k \in 2..4 : /\ ret[1].results[k].repository = 2
                       /\ ret[1].results[k].target = "gitlab"
                       /\ ret[1].results[k].status = "success"

\* C3: with dry_run = True no adapter's backup_repository is invoked, nothing
\* is submitted to the pool, send_backup_summary is not invoked, and the run
\* emits exactly one 'dry_run' outcome for each pair a live run executes.
C3_DryRunNoSideEffects ==
    config.dry_run =>
        /\ calls = NoCalls
        /\ future = <<>>
        /\ sent = <<>>
        /\ (pc = "returned" /\ Pairs # {}) =>
              /\ ReturnedSummary
              /\ Len(ret[1].results) = Cardinality(Pairs)
              /\ \A p \in Pairs :
                    /\ Cardinality(OutcomesFor(ret[1].results, p)) = 1
                    /\ \A k \in OutcomesFor(ret[1].results, p) :
                          ret[1].results[k].status = "dry_run"

C3_Witness ==
    /\ config.dry_run
    /\ ReturnedSummary
    /\ Cardinality(Pairs) = 4
    /\ ret[1].dry_run = 4

\* C4: zero repositories give status 'no_repositories', repositories without
\* an enabled adapter give 'no_targets'; in both cases no task is executed
\* and send_backup_summary is never invoked.
C4_EmptyInputs ==
    (config.found = 0 \/ EnabledNames = {}) =>
        /\ calls = NoCalls
        /\ future = <<>>
        /\ results = <<>>
        /\ summary = <<>>
        /\ sent = <<>>
        /\ pc = "returned" =>
              ret = <<[status |-> IF config.found = 0 THEN "no_repositories"
                                  ELSE "no_targets"]>>

\* Repositories exist and the registry holds an adapter, but a disabled one.
C4_Witness ==
    /\ pc = "returned"
    /\ config.found = 2
    /\ DisabledNames # {}
    /\ ret = <<[status |-> "no_targets"]>>

\* C5: in a live run the summary does not exist while a task is unsubmitted,
\* pending, executing, or finished with its outcome not yet in results.
C5_JoinBeforeSummary ==
    (summary # <<>> /\ ~config.dry_run) =>
        /\ Len(future) = Len(backup_tasks)
        /\ \A i \in Tasks : future[i].state = "collected"
        /\ Len(results) = Len(backup_tasks)
        /\ summary[1].results = results

C5_Witness ==
    /\ summary # <<>>
    /\ ~config.dry_run
    /\ Len(backup_tasks) = 4
    /\ max_workers = 1

\* C6: at every moment at most max_concurrent_backups (5 when the key is
\* absent) adapter calls are executing, also with more tasks than workers.
C6_BoundedConcurrency ==
    Cardinality(Running) <=
        (IF config.max_concurrent_backups = <<>> THEN 5
         ELSE config.max_concurrent_backups[1])

\* The pool is full and a task is waiting for a worker.
C6_Witness ==
    /\ config.max_concurrent_backups = <<2>>
    /\ Cardinality(Running) = 2
    /\ Pending # {}
    /\ Len(backup_tasks) = 4

\* C7: the summary's counts and the set of its outcomes are a function of the
\* tasks and of which adapter calls raised, whatever the completion order.
C7_OrderIndependent ==
    (ReturnedSummary /\ ~config.dry_run) =>
        LET s == ret[1] IN
        /\ s.total_backups = Cardinality(Tasks)
        /\ s.successful = Cardinality(Tasks \ raised)
        /\ s.failed = Cardinality(raised)
        /\ s.target_summary =
              [t \in EnabledNames |->
                  [success |-> Cardinality(TasksOf(t) \ raised),
                   failed  |-> Cardinality(TasksOf(t) \cap raised),
                   dry_run |-> 0]]
        /\ {s.results[k] : k \in 1..Len(s.results)} =
              {[repository |-> backup_tasks[i].repo,
                target     |-> backup_tasks[i].target,
                status     |-> "success",
                result     |-> [status |-> "success"]] : i \in Tasks \ raised}
              \cup
              {[repository |-> backup_tasks[i].repo,
                target     |-> backup_tasks[i].target,
                status     |-> "error",
                error      |-> "failed"] : i \in raised}

\* The outcomes were collected in an order other than the submission order,
\* a failure first.
C7_Witness ==
    /\ ReturnedSummary
    /\ ~config.dry_run
    /\ Len(backup_tasks) = 4
    /\ raised = {2, 4}
    /\ ret[1].results[1].repository = 2
    /\ ret[1].results[1].status = "error"
    /\ ret[1].results[4].repository = 1

\* C8: in a live run each enabled adapter's backup_repository is invoked
\* exactly once per fetched repository, never twice, and a disabled adapter
\* of the registry is never invoked.
C8_ExactlyOnce ==
    /\ \A p \in RepoNames \X TargetNames :
          /\ calls[p] <= 1
          /\ calls[p] = 1 => (p \in Pairs /\ ~config.dry_run)
    /\ (ReturnedSummary /\ ~config.dry_run) => \A p \in Pairs : calls[p] = 1

C8_Witness ==
    /\ ReturnedSummary
    /\ ~config.dry_run
    /\ config.found = 2
    /\ EnabledNames = {"local"}
    /\ DisabledNames = {"gitlab"}
    /\ calls[<<1, "local">>] = 1
    /\ calls[<<2, "local">>] = 1
    /\ calls[<<1, "gitlab">>] = 0

\* The steps that synchronise the repository with the destination.
SyncSteps == {"create", "mirror", "sync", "clone", "push", "describe",
              "remote_add", "target_not_found"}

\* C9: a backup_repository call for a pair that an earlier call already
\* backed up successfully issues no second create (of the project, repository
\* or decentralized project, or of a mirror registration that exists) and
\* adds no destination-side entity or mirror registration for the repository.
C9_Idempotent ==
    (last.n > 0 /\ last.prior_success) =>
        /\ ~last.create_issued
        /\ entities[last.repo] = last.entities_before
        /\ last.mirrors_before > 0 =>
              (~last.mirror_issued /\ mirrors[last.repo] = last.mirrors_before)

\* C10: a call in which a synchronization step failed is reported with status
\* 'error', never 'success'.
C10_FailureIsError ==
    (last.n > 0 /\ last.failed \cap SyncSteps # {}) =>
        last.outcome.status = "error"

\* C11: a call of GitLab or Gitea that returns with method 'clone_push' has
\* cloned the source and pushed it to the destination; one that returns with
\* method 'mirror' has registered the source as a mirror and cloned nothing.
C11_MethodDone ==
    (last.n > 0 /\ tcfg.adapter \in {"gitlab", "gitea"}
                /\ last.outcome.status = "success") =>
        /\ last.outcome.result.method = "clone_push" =>
              (last.cloned /\ last.pushed)
        /\ last.outcome.result.method = "mirror" =>
              (last.registered /\ ~last.cloned)

\* C13: every URL a call uses as the source of the repository content (clone
\* source, import URL, mirror URL) is the ssh_url for a private repository
\* and the clone_url for a public one.
C13_PrivateUsesSsh ==
    last.n > 0 =>
        \A u \in last.sources :
            u[2] = IF last.private THEN "ssh_url" ELSE "clone_url"

\* C14: for every adapter and every kind of failure of its probe,
\* test_connection returns False and does not raise; a disabled adapter
\* returns False without starting the probe.
C14_TestConnectionNeverRaises ==
    (unit.op = "test_connection" /\ unit.done) =>
        /\ unit.out.test.result # "raised"
        /\ (unit.out.test.io /\ unit.failure.kind # "none") =>
              unit.out.test.result = "False"
        /\ ~unit.enabled =>
              (unit.out.test.result = "False" /\ ~unit.out.test.io)

\* A credential of the form '${VAR}'.
IsPlaceholder(token) ==
    \E v \in Strings(MaxTokenLen) : token = <<"$", "{">> \o v \o <<"}">>

PlaceholderVar(token) ==
    CHOOSE v \in Strings(MaxTokenLen) : token = <<"$", "{">> \o v \o <<"}">>

\* C15: _get_token resolves a placeholder '${VAR}' to the value of VAR, to the
\* empty string when VAR is unset, and returns a literal unchanged; an enabled
\* GitLab, Gitea or Bitbucket adapter built with a placeholder whose variable
\* is unset is constructed without raising, and its test_connection returns
\* False without raising and without starting a network call.
C15_PlaceholderResolution ==
    /\ (unit.op = "get_token" /\ unit.done) =>
          IF IsPlaceholder(unit.token)
          THEN LET v == PlaceholderVar(unit.token)
               IN  unit.out = IF v \in DOMAIN unit.env THEN unit.env[v] ELSE <<>>
          ELSE unit.out = unit.token
    /\ (/\ unit.op = "test_connection" /\ unit.done
        /\ unit.adapter \in {"gitlab", "gitea", "bitbucket"}
        /\ unit.enabled
        /\ \E i \in 1..Len(unit.creds) :
              /\ IsPlaceholder(unit.creds[i])
              /\ PlaceholderVar(unit.creds[i]) \notin DOMAIN unit.env) =>
          /\ ~unit.out.self.raised
          /\ unit.out.test = [result |-> "False", io |-> FALSE]

\* An enabled Bitbucket adapter whose app_password placeholder is unset (the
\* user name is a literal) has been probed while the server was failing.
C15_Witness ==
    /\ unit.op = "test_connection" /\ unit.done
    /\ unit.adapter = "bitbucket" /\ unit.enabled
    /\ unit.creds = << <<"V">>, <<"$", "{", "V", "}">> >>
    /\ unit.env = <<>>
    /\ unit.failure.kind = "http_error"
    /\ unit.out.test.result = "False"

\* The repositories of the organization named in the output.
Yielded(out) == {out[i].name : i \in 1..Len(out)}

PassesFlags(repo, f) ==
    /\ repo.private => f.include_private
    /\ repo.archived => f.include_archived
    /\ repo.fork => f.include_forks

MatchesSome(patterns, name) ==
    \E i \in 1..Len(patterns) : re_match(patterns[i], name)

\* C16: get_repositories yields a repository iff it passes the private /
\* archived / fork flags, matches no exclude pattern and, when there are
\* include patterns, matches one of them (so exclude wins over include); for
\* the names a-lib, a-test, b-lib with all flags passing, exclude ['a-.*']
\* yields only b-lib, and include ['b-.*'] yields only b-lib.
C16_FilterIff ==
    (unit.op = "get_repositories" /\ unit.done) =>
        LET f == unit.filters
        IN  /\ \A i \in 1..Len(unit.org) :
                  (unit.org[i].name \in Yielded(unit.out)) <=>
                      /\ PassesFlags(unit.org[i], f)
                      /\ ~MatchesSome(f.exclude_patterns, unit.org[i].name)
                      /\ (f.include_patterns # <<>> =>
                             MatchesSome(f.include_patterns, unit.org[i].name))
            /\ \A i \in 1..Len(unit.out) : \E j \in 1..Len(unit.org) : unit.out[i] = unit.org[j]
            /\ ((\A i \in 1..Len(unit.org) : PassesFlags(unit.org[i], f))
                /\ ( \/ (f.exclude_patterns = << <<"a", "-", ".*">> >> /\ f.include_patterns = <<>>)
                     \/ (f.include_patterns = << <<"b", "-", ".*">> >> /\ f.exclude_patterns = <<>>))) =>
                  Yielded(unit.out) = {ExampleNames[3]}

\* b-lib matches both the exclude pattern 'b' and the include pattern 'b-.*'
\* and passes the flags: it is left out, and nothing is yielded.
C16_Witness ==
    /\ unit.op = "get_repositories" /\ unit.done
    /\ unit.filters.exclude_patterns = << <<"b">> >>
    /\ unit.filters.include_patterns = << <<"b", "-", ".*">> >>
    /\ PassesFlags(unit.org[3], unit.filters)
    /\ unit.out = <<>>

RecognisedKeys ==
    {"gitlab", "gitea", "bitbucket", "radicle", "gittorrent", "ipfs", "dat", "local_backup"}

\* C20: create_targets registers exactly one adapter for each recognised key
\* present in the configuration (local_backup under the name 'local'),
\* nothing for any other key, whether or not the key is enabled.
C20_OnePerRecognisedKey ==
    (unit.op = "create_targets" /\ unit.done) =>
        LET out == unit.out
            registered(k) == IF k = "local_backup" THEN "local" ELSE k
        IN  /\ \A k \in RecognisedKeys :
                  Cardinality({i \in 1..Len(out) : out[i].name = registered(k)}) =
                      IF k \in DOMAIN unit.cfg THEN 1 ELSE 0
            /\ Len(out) = Cardinality(DOMAIN unit.cfg \cap RecognisedKeys)
            /\ \A i \in 1..Len(out) :
                  \E k \in DOMAIN unit.cfg \cap RecognisedKeys :
                      out[i] = [name |-> registered(k), enabled |-> unit.cfg[k].enabled]

\* A configuration with a disabled gitea, a local_backup and the unrecognised
\* keys 'local' and 's3' gave the adapters 'gitea' and 'local' only.
C20_Witness ==
    /\ unit.op = "create_targets" /\ unit.done
    /\ DOMAIN unit.cfg = {"gitea", "local_backup", "local", "s3"}
    /\ ~unit.cfg["gitea"].enabled /\ unit.cfg["local"].enabled
    /\ unit.out = <<[name |-> "gitea", enabled |-> FALSE],
                    [name |-> "local", enabled |-> unit.cfg["local_backup"].enabled]>>

\* C12: once a backup_repository call has returned or raised, every directory
\* it created to hold a clone is gone, except the snapshot directory a
\* successful uncompressed local backup keeps.
C12_NoCloneDirLeft ==
    \A r \in DOMAIN ltask :
        (ltask[r].pc \in {"done", "raised"} /\ Own(r, "dir") # {}) =>
            (ltask[r].pc = "done" /\ ~lcfg.compress)

Min(a, b) == IF a <= b THEN a ELSE b

\* C17: with keep_versions = K >= 1 and P snapshots of a repository before a
\* call, when the call returns success (none of its deletions having failed)
\* exactly min(K, P+1) snapshots of the repository remain, the snapshot just
\* created among them, and every snapshot of it that is gone is older than
\* every one that remains.
C17_Retention ==
    \A r \in DOMAIN ltask :
        (ltask[r].pc = "done" /\ lcfg.keep_versions >= 1 /\ ltask[r].del_failed = {}) =>
            LET mine == ltask[r].after
            IN  /\ Cardinality(mine) = Min(lcfg.keep_versions, ltask[r].p_before + 1)
                /\ \E x \in mine : x.ts = ltask[r].ts
                /\ \A d \in removed : \A x \in mine :
                      (d.item.repo = r /\ d.by = r) => d.item.ctime < x.ctime

\* C18: when the deletion of one stale snapshot fails, every other stale
\* snapshot of the list has been deleted when the call returns, and the call
\* returns success.
C18_OtherStaleDeleted ==
    \A r \in DOMAIN ltask :
        ltask[r].del_failed # {} =>
            /\ ltask[r].pc # "raised"
            /\ ltask[r].pc = "done" => ltask[r].left \subseteq ltask[r].del_failed

\* C19: the cleanup of the task for repository r removes only completely
\* written snapshots of r itself.
C19_RemovesOnlyOwn ==
    \A d \in removed : d.item.repo = d.by /\ d.item.complete

\* C22: a live run with at least one task hands its summary to
\* send_backup_summary exactly once, after every task outcome has been
\* collected and the summary built, and the summary handed over is the one
\* run_backup returns, whatever the tasks' outcomes.
C22_SummarySentOnce ==
    /\ sent # <<>> =>
          /\ ~config.dry_run
          /\ Len(sent) = 1
          /\ summary = <<sent[1]>>
          /\ Len(results) = Len(backup_tasks)
          /\ \A i \in Tasks : future[i].state = "collected"
          /\ sent[1].results = results
          /\ ret = <<sent[1]>>
    /\ (pc = "returned" /\ ~config.dry_run /\ backup_tasks # <<>>) =>
          (Len(sent) = 1 /\ ret = <<sent[1]>>)

\* A live run of four tasks that all failed has returned and its summary was
\* handed over.
C22_Witness ==
    /\ pc = "returned"
    /\ ~config.dry_run
    /\ Len(backup_tasks) = 4
    /\ raised = Tasks
    /\ Len(sent) = 1
    /\ sent[1].failed = 4
    /\ ret = <<sent[1]>>

\* C23: when discovery fails the error leaves run_backup at once: no task is
\* built, no adapter is invoked, no summary is generated, nothing is handed to
\* send_backup_summary and run_backup returns nothing.
C23_DiscoveryErrorFatal ==
    config.discovery = "error" =>
        /\ pc \in {"start", "raised"}
        /\ repositories = <<>>
        /\ backup_tasks = <<>>
        /\ future = <<>>
        /\ calls = NoCalls
        /\ results = <<>>
        /\ summary = <<>>
        /\ sent = <<>>
        /\ ret = <<>>

\* Discovery failed in a live configuration that has repositories and two
\* enabled adapters, and the error has left run_backup.
C23_Witness ==
    /\ config.discovery = "error"
    /\ pc = "raised"
    /\ ~config.dry_run
    /\ config.found = 2
    /\ Cardinality(EnabledNames) = 2

RECURSIVE SumField(_, _, _)
SumField(ts, names, field) ==
    IF names = {} THEN 0
    ELSE LET n == CHOOSE x \in names : TRUE
         IN  ts[n][field] + SumField(ts, names \ {n}, field)

\* C27: in every summary generate_summary has produced, target_summary has one
\* entry per adapter name occurring in results; per adapter success + failed +
\* dry_run is the number of its outcomes; the per-adapter counts add up to the
\* overall successful, failed and dry_run counts; in a live run every dry_run
\* count is 0 and in a dry run every success and failed count is 0.
C27_TargetSummaryConsistent ==
    summary # <<>> =>
        LET s  == summary[1]
            ts == s.target_summary
            of(t) == {i \in 1..Len(s.results) : s.results[i].target = t}
        IN  /\ DOMAIN ts = {s.results[i].target : i \in 1..Len(s.results)}
            /\ \A t \in DOMAIN ts :
                  /\ ts[t].success + ts[t].failed + ts[t].dry_run = Cardinality(of(t))
                  /\ ts[t].failed =
                        Cardinality({i \in of(t) : s.results[i].status = "error"})
                  /\ (~config.dry_run => ts[t].dry_run = 0)
                  /\ (config.dry_run => ts[t].success = 0 /\ ts[t].failed = 0)
            /\ SumField(ts, DOMAIN ts, "success") = s.successful
            /\ SumField(ts, DOMAIN ts, "failed") = s.failed
            /\ SumField(ts, DOMAIN ts, "dry_run") = s.dry_run

\* A live summary over two adapters: gitlab with one success and one failure,
\* local with two successes.
C27_Witness ==
    /\ summary # <<>>
    /\ ~config.dry_run
    /\ DOMAIN summary[1].target_summary = {"gitlab", "local"}
    /\ summary[1].target_summary["gitlab"] = [success |-> 1, failed |-> 1, dry_run |-> 0]
    /\ summary[1].target_summary["local"] = [success |-> 2, failed |-> 0, dry_run |-> 0]

\* C24: also when a destination never answers, every task terminates and the
\* run completes: run_backup eventually returns (or raises).
C24_RunCompletes == <>(pc \in {"returned", "raised"})

\* C21: send_backup_summary and send_error_notification never raise; the
\* failure of an enabled sink is caught and logged, every other enabled sink
\* is still attempted, a disabled sink is never attempted, and run_backup
\* returns the summary whatever the sinks do.
C21_NotificationsNeverRaise ==
    (unit.op = "notify" /\ unit.done) =>
        /\ ~unit.out.raised
        /\ unit.out.attempted = unit.enabled
        /\ unit.out.logged = unit.enabled \cap unit.failing
        /\ unit.out.delivered = unit.enabled \ unit.failing
        /\ unit.method = "send_backup_summary" => unit.out.ret = "summary"

\* All three sinks enabled and all three failing, at the end of a run.
C21_Witness ==
    /\ unit.op = "notify" /\ unit.done
    /\ unit.method = "send_backup_summary"
    /\ unit.enabled = Sinks /\ unit.failing = Sinks
    /\ unit.out.logged = Sinks
    /\ unit.out.ret = "summary"

\* C29: whenever LocalBackupTarget.backup_repository returns success, the
\* snapshot named by the returned backup_path is in the backup directory at
\* that moment, for every keep_versions (0 included) and both compress
\* settings.
C29_NewSnapshotKept ==
    \A r \in DOMAIN ltask :
        ltask[r].pc = "done" =>
            \E x \in ltask[r].after :
                /\ x.ts = ltask[r].ts
                /\ x.kind = IF lcfg.compress THEN "archive" ELSE "dir"

\* C30: the path _create_archive returns is the path of the file it wrote,
\* for both compression settings, and an IPFS backup_repository call whose
\* clone and API calls all succeed returns success.
C30_ArchivePathExists ==
    (unit.op = "ipfs_backup" /\ unit.done) =>
        /\ unit.out.archive.returned = unit.out.archive.written
        /\ unit.fail = {} => unit.out.status = "success"

\* The enabled entries of the scheduler's configuration.
EnabledEntries == {i \in DOMAIN scfg.targets : scfg.targets[i].enabled}

\* C25: when the enabled targets share one sync_interval_hours, the scheduler
\* starts one run_backup per interval: two runs never start less than one
\* interval apart.
C25_OneRunPerInterval ==
    \A h \in 1..MaxInterval :
        (/\ EnabledEntries # {}
         /\ \A i \in EnabledEntries : scfg.targets[i].sync_interval_hours = h)
        => \A a, b \in DOMAIN runlog :
               a < b => runlog[b].start - runlog[a].start >= h

\* The notifications made for run n.
NotesOf(n) == SelectSeq(notes, LAMBDA x : x.run = n)

\* C26: a scheduled run that raises is caught by run_scheduled_backup, which
\* calls send_error_notification once, with a string, and nothing else; the
\* scheduler goes on and the job is due again one interval later.
C26_RaisedRunReported ==
    /\ spc # "crashed"
    /\ \A n \in DOMAIN runlog :
        runlog[n].outcome = "raised" =>
            /\ Len(NotesOf(n)) = 1
            /\ NotesOf(n)[1].call = "send_error_notification"
            /\ NotesOf(n)[1].arg.type = "str"
            /\ jobs[runlog[n].job].next_run
                   >= runlog[n].end + jobs[runlog[n].job].interval

\* A run raised and the same job has run again after it.
C26_Witness ==
    \E a, b \in DOMAIN runlog :
        /\ a < b
        /\ runlog[a].outcome = "raised"
        /\ runlog[b].job = runlog[a].job
        /\ runlog[b].outcome = "summary"
        /\ runlog[b].start >= runlog[a].end + jobs[runlog[a].job].interval

\* C28: at most one run_backup started by the scheduler is in progress, and
\* every run has ended when the next one starts.
C28_RunsNeverOverlap ==
    /\ active <= 1
    /\ \A a, b \in DOMAIN runlog :
        a < b => /\ runlog[a].end # -1
                 /\ runlog[a].end <= runlog[b].start

\* A run that lasted longer than its job's interval, with another job due
\* meanwhile and run after it.
C28_Witness ==
    \E a, b \in DOMAIN runlog :
        /\ a < b
        /\ runlog[a].end - runlog[a].start > jobs[runlog[a].job].interval
        /\ runlog[b].job # runlog[a].job
        /\ jobs[runlog[b].job].interval <= runlog[a].end - runlog[a].start
        /\ runlog[b].start = runlog[a].end

====
